---- MODULE Spec2Model ----
(***************************************************************************)
(* liku-lsp: the cursor-context analyser of bundled/tool/liku_parser.py    *)
(* (find_liku_areas, Tokenizer, action_at_cursor) and the prefix handling  *)
(* of bundled/tool/liku_commands.py.                                       *)
(*                                                                         *)
(* A document is a sequence of lines, a line a sequence of one-character   *)
(* strings.  Python indices are 0-based and kept 0-based here: the         *)
(* character at Python index i of a sequence s is s[i + 1].                *)
(***************************************************************************)
EXTENDS Integers, Sequences, FiniteSets, TLC

----------------------------------------------------------------------------
(* Characters and string constants of liku_parser.py *)

DQ == "\""
SQ == "'"
LT == "<"
GT == ">"
SP == " "
NL == "\n"
LB == "{"
RB == "}"

STRING_CHARS == {SQ, DQ}

BRACKET_CHARS == {LT, GT}

TRIPLE_QUOTE == <<DQ, DQ, DQ>>

TEMPLATE_OPEN == <<LB, LB>>

TEMPLATE_CLOSE == <<RB, RB>>

\* The characters the regular-expression class \w accepts, among the
\* characters the documents of this model are written with.
WordChars == {"a", "b", "h"}

\* The characters str.strip / str.lstrip remove.
Whitespace == {SP, NL}

\* The configured call name handed to action_at_cursor.
html_func == <<"h">>

----------------------------------------------------------------------------
(* Python string operations *)

Min(S) == CHOOSE x \in S : \A y \in S : x <= y

\* s[i:] of Python
Slice(s, i) == IF i >= Len(s) THEN <<>> ELSE SubSeq(s, i + 1, Len(s))

\* s[i:i+len(pat)] == pat
IsAt(s, pat, i) ==
    /\ i >= 0
    /\ i + Len(pat) <= Len(s)
    /\ SubSeq(s, i + 1, i + Len(pat)) = pat

\* str.find: the index of the first occurrence, or -1
Find(s, pat) ==
    LET hits == {i \in 0..Len(s) : IsAt(s, pat, i)}
    IN  IF hits = {} THEN -1 ELSE Min(hits)

StartsWith(s, pat) == IsAt(s, pat, 0)

EndsWith(s, pat) == Len(s) >= Len(pat) /\ IsAt(s, pat, Len(s) - Len(pat))

RECURSIVE LStrip(_)
LStrip(s) ==
    IF s # <<>> /\ Head(s) \in Whitespace THEN LStrip(Tail(s)) ELSE s

RECURSIVE RStrip(_)
RStrip(s) ==
    IF s # <<>> /\ s[Len(s)] \in Whitespace
    THEN RStrip(SubSeq(s, 1, Len(s) - 1))
    ELSE s

\* Variant of Strip that trims the left end only.
Strip_LeftOnly(s) == LStrip(s)

Strip(s) == LStrip(RStrip(s))

\* The index of the first character at or after i that is not in set cs
\* (Len(s) when there is none): where a greedy  [cs]*  ends.
RECURSIVE SkipWhile(_, _, _)
SkipWhile(s, i, cs) ==
    IF i < Len(s) /\ s[i + 1] \in cs THEN SkipWhile(s, i + 1, cs) ELSE i

----------------------------------------------------------------------------
(* Positions (lsprotocol Position: ordered by line, then character) *)

Pos(l, c) == [line |-> l, character |-> c]

PosGT(p, q) ==
    \/ p.line > q.line
    \/ p.line = q.line /\ p.character > q.character

PosGE(p, q) == p = q \/ PosGT(p, q)

PosLE(p, q) == PosGE(q, p)

NoPos == Pos(-1, -1)

----------------------------------------------------------------------------
(* find_liku_areas *)

\* html_start_re = =? *{html_func} *\(  matched at index i of the line
HtmlStartMatchAt(line, i) ==
    LET j1 == IF IsAt(line, <<"=">>, i) THEN i + 1 ELSE i
        j2 == SkipWhile(line, j1, {SP})
        j3 == SkipWhile(line, j2 + Len(html_func), {SP})
    IN  /\ IsAt(line, html_func, j2)
        /\ IsAt(line, <<"(">>, j3)

\* html_start_re.search(line)
HtmlStartSearch(line) == \E i \in 0..Len(line) : HtmlStartMatchAt(line, i)

\* The inner loop that looks for the call line, from line l on: the index
\* of the first matching line, or len(document.lines).
FindCallLine(lines, l) ==
    LET hits == {k \in l..(Len(lines) - 1) : HtmlStartSearch(lines[k + 1])}
    IN  IF hits = {} THEN Len(lines) ELSE Min(hits)

\* The loop that looks for the opening delimiter, from line l on: the
\* index of the first line holding one, or len(document.lines), where
\* document.lines[start.line] is out of range.
FindOpeningLine(lines, l) ==
    LET hits == {k \in l..(Len(lines) - 1) : Find(lines[k + 1], TRIPLE_QUOTE) # -1}
    IN  IF hits = {} THEN Len(lines) ELSE Min(hits)

\* The text of line k in which the closing delimiter is looked for.
ClosingText(lines, start, k) ==
    IF k = start.line THEN Slice(lines[k + 1], start.character) ELSE lines[k + 1]

\* Variant of FindClosingLine that settles for the last line of the document
\* when no closing delimiter is found.
FindClosingLine_LastLine(lines, start) ==
    LET hits == {k \in start.line..(Len(lines) - 1) :
                    Find(ClosingText(lines, start, k), TRIPLE_QUOTE) # -1}
    IN  IF hits = {} THEN Len(lines) - 1 ELSE Min(hits)

FindClosingLine(lines, start) ==
    LET hits == {k \in start.line..(Len(lines) - 1) :
                    Find(ClosingText(lines, start, k), TRIPLE_QUOTE) # -1}
    IN  IF hits = {} THEN Len(lines) ELSE Min(hits)

\* The generator before its first resumption: start = end = Position(0, 0).
NewGenerator == [kind |-> "new", start |-> Pos(0, 0), end |-> Pos(0, 0)]

\* Variant of NextArea that leaves out the offset of an inline end.
NextArea_NoOffset(lines, end) ==
    LET callLine == FindCallLine(lines, end.line + 1)
        openLine == FindOpeningLine(lines, callLine)
        start    == Pos(openLine, Find(lines[openLine + 1], TRIPLE_QUOTE) + Len(TRIPLE_QUOTE))
        endLine  == FindClosingLine(lines, start)
        idx      == Find(ClosingText(lines, start, endLine), TRIPLE_QUOTE)
    IN  IF callLine >= Len(lines)
        THEN [kind |-> "return", start |-> Pos(callLine, 0), end |-> end]
        ELSE IF openLine >= Len(lines)
        THEN [kind |-> "raise", start |-> Pos(openLine, 0), end |-> end]
        ELSE IF endLine >= Len(lines)
        THEN [kind |-> "return", start |-> start, end |-> Pos(endLine, 0)]
        ELSE [kind |-> "yield", start |-> start, end |-> Pos(endLine, idx)]

\* One resumption of the generator, from the value of its local `end`:
\* it yields a region, returns (the sequence ends) or raises IndexError.
\* The value holds how it ended and its locals start and end.
NextArea(lines, end) ==
    LET callLine == FindCallLine(lines, end.line + 1)
        openLine == FindOpeningLine(lines, callLine)
        start    == Pos(openLine, Find(lines[openLine + 1], TRIPLE_QUOTE) + Len(TRIPLE_QUOTE))
        endLine  == FindClosingLine(lines, start)
        idx      == Find(ClosingText(lines, start, endLine), TRIPLE_QUOTE)
        endPos   == Pos(endLine, IF endLine = start.line THEN idx + start.character ELSE idx)
    IN  IF callLine >= Len(lines)
        THEN [kind |-> "return", start |-> Pos(callLine, 0), end |-> end]
        ELSE IF openLine >= Len(lines)
        THEN [kind |-> "raise", start |-> Pos(openLine, 0), end |-> end]
        ELSE IF endLine >= Len(lines)
        THEN [kind |-> "return", start |-> start, end |-> Pos(endLine, 0)]
        ELSE [kind |-> "yield", start |-> start, end |-> endPos]

----------------------------------------------------------------------------
(* Tokens *)

NoToken == [type |-> "NONE", value |-> <<>>, line |-> -1, column |-> -1]

Token(type, value, line, column) ==
    [type |-> type, value |-> value, line |-> line, column |-> column]

\* Token.finalized
Finalized(tok) == EndsWith(tok.value, <<SP>>)

\* Variant of PropsMatch that never reports the `:` group.
PropsMatch_NoGroup(buf) ==
    LET i0 == IF IsAt(buf, <<":">>, 0) THEN 1 ELSE 0
        i1 == SkipWhile(buf, i0, WordChars)
        i2 == SkipWhile(buf, i1 + 2, WordChars)
        ok == /\ i1 > i0
              /\ IsAt(buf, <<"=">>, i1)
              /\ i1 + 1 < Len(buf)
              /\ buf[i1 + 2] \in STRING_CHARS
              /\ IsAt(buf, <<buf[i1 + 2]>>, i2)
    IN  <<ok, FALSE>>

\* PROPS_RE = (:?)\w+=(["'])\w*\2  matched at the start of buf; the value
\* is <<matched, group(1) = ":">>.
PropsMatch(buf) ==
    LET i0 == IF IsAt(buf, <<":">>, 0) THEN 1 ELSE 0
        i1 == SkipWhile(buf, i0, WordChars)
        i2 == SkipWhile(buf, i1 + 2, WordChars)
        ok == /\ i1 > i0
              /\ IsAt(buf, <<"=">>, i1)
              /\ i1 + 1 < Len(buf)
              /\ buf[i1 + 2] \in STRING_CHARS
              /\ IsAt(buf, <<buf[i1 + 2]>>, i2)
    IN  <<ok, i0 = 1>>

\* TEMPLATE_RE = {{(.*)}}  matched at the start of buf
TemplateMatch(buf) ==
    /\ StartsWith(buf, TEMPLATE_OPEN)
    /\ \E i \in 2..Len(buf) : IsAt(buf, TEMPLATE_CLOSE, i)

\* INCOMPLETE_TEMPLATE_RE = {{(.*)  matched at the start of buf
IncompleteTemplateMatch(buf) == StartsWith(buf, TEMPLATE_OPEN)

\* Variant of IncompleteProgPropsMatch whose group starts at the quote.
IncompleteProgPropsMatch_WithQuote(value) ==
    LET i1 == SkipWhile(value, 1, WordChars)
        ok == /\ IsAt(value, <<":">>, 0)
              /\ i1 > 1
              /\ IsAt(value, <<"=">>, i1)
              /\ i1 + 1 < Len(value)
              /\ value[i1 + 2] \in STRING_CHARS
    IN  <<ok, IF ok THEN Slice(value, i1 + 1) ELSE <<>> >>

\* INCOMLETE_PROG_PROPS_RE = :\w+=["'](.*)  matched at the start of value;
\* the value is <<matched, group(1)>>.
IncompleteProgPropsMatch(value) ==
    LET i1 == SkipWhile(value, 1, WordChars)
        ok == /\ IsAt(value, <<":">>, 0)
              /\ i1 > 1
              /\ IsAt(value, <<"=">>, i1)
              /\ i1 + 1 < Len(value)
              /\ value[i1 + 2] \in STRING_CHARS
    IN  <<ok, IF ok THEN Slice(value, i1 + 2) ELSE <<>> >>

\* The type of the token returned for a non-empty buffer.
TokenTypeOf(buf) ==
    IF buf \in {<<LT>>, <<GT>>} THEN "BRACKET"
    ELSE IF PropsMatch(buf)[1]
         THEN IF PropsMatch(buf)[2] THEN "PROG_PROPS" ELSE "PROPS"
    ELSE IF TemplateMatch(buf) THEN "TEMPLATE"
    ELSE IF IncompleteTemplateMatch(buf) THEN "INCOMPLETE_TEMPLATE"
    ELSE "IDENT"

----------------------------------------------------------------------------
(* Tokenizer *)

\* The tokenizer is a record: the fields position and max_position of the
\* object, and the locals of the running __next__ call.  max_position is
\* the very Position object the caller passed as the cursor.

\* Tokenizer.__init__
TokenizerInit(start, cursor_position) ==
    [position |-> start, max_position |-> cursor_position]

\* The first lines of __next__: its locals.
NextEnter(self) ==
    [position     |-> self.position,
     max_position |-> self.max_position,
     start_line   |-> self.position.line,
     start_col    |-> self.position.character,
     buf          |-> <<>>,
     templ_stack  |-> 0,
     state        |-> "NONE"]

\* Variant of ScanCond that goes on after the state END.
ScanCond_IgnoreEnd(t, lines) == t.position.line < Len(lines)

\* The condition of the scan loop.
ScanCond(t, lines) == t.position.line < Len(lines) /\ t.state # "END"

\* The position is at or past the end of its line.
AtLineEnd(t, current_line) ==
    \/ t.position.character >= Len(current_line)
    \/ current_line[t.position.character + 1] = NL

\* Variant of StepNewline that goes on at column 1 of the next line.
StepNewline_SkipFirst(t) ==
    LET moved == [t EXCEPT !.position = Pos(t.position.line + 1, 1)]
    IN  IF t.buf # <<>>
        THEN [moved EXCEPT !.state = "END"]
        ELSE [moved EXCEPT !.start_line = t.position.line + 1, !.start_col = 0]

\* The branch taken at the end of a line.
StepNewline(t) ==
    LET moved == [t EXCEPT !.position = Pos(t.position.line + 1, 0)]
    IN  IF t.buf # <<>>
        THEN [moved EXCEPT !.state = "END"]
        ELSE [moved EXCEPT !.start_line = t.position.line + 1, !.start_col = 0]

\* The state after `buf += current_char` and the brace, quote and space rules.
StateAfter(t, c, buf1) ==
    LET s1 == IF t.state # "STRING"
              THEN IF buf1 = TEMPLATE_OPEN THEN "TEMPLATE"
                   ELSE IF c \in BRACKET_CHARS THEN "END" ELSE "IDENT"
              ELSE t.state
        ts1 == IF s1 = "TEMPLATE" /\ EndsWith(buf1, TEMPLATE_OPEN)
               THEN t.templ_stack + 1 ELSE t.templ_stack
        ts2 == IF s1 = "TEMPLATE" /\ EndsWith(buf1, TEMPLATE_CLOSE)
               THEN ts1 - 1 ELSE ts1
        s2 == IF s1 = "TEMPLATE" /\ EndsWith(buf1, TEMPLATE_CLOSE) /\ ts2 = 0
              THEN "END" ELSE s1
        s3 == IF c \in STRING_CHARS
              THEN IF s2 = "STRING" THEN "END" ELSE "STRING"
              ELSE s2
        s4 == IF c = SP /\ s3 \notin {"STRING", "TEMPLATE"} THEN "END" ELSE s3
    IN  [state |-> s4, templ_stack |-> ts2]

\* Variant of Retract that moves the boundary back instead of the scan
\* position.
Retract_Boundary(t) ==
    [t EXCEPT !.max_position = Pos(t.max_position.line, t.max_position.character - 2),
              !.buf = SubSeq(t.buf, 1, Len(t.buf) - 2),
              !.state = "END"]

\* Variant of Retract that moves the scan position back by three.
Retract_Three(t) ==
    [t EXCEPT !.position = Pos(t.position.line, t.position.character - 3),
              !.buf = SubSeq(t.buf, 1, Len(t.buf) - 2),
              !.state = "END"]

\* The HACK: a buffer that has grown past an opener gives the opener back.
Retract(t) ==
    [t EXCEPT !.position = Pos(t.position.line, t.position.character - 2),
              !.buf = SubSeq(t.buf, 1, Len(t.buf) - 2),
              !.state = "END"]

\* The condition of the HACK.
Retracts(buf) == Len(buf) > 2 /\ EndsWith(buf, TEMPLATE_OPEN)

\* Variant of StepChar without the HACK.
StepChar_NoRetract(t, c) ==
    LET buf1 == Append(t.buf, c)
        sa   == StateAfter(t, c, buf1)
        t1   == [t EXCEPT !.buf = buf1, !.state = sa.state,
                          !.templ_stack = sa.templ_stack]
    IN  IF t1.state # "NONE"
        THEN [t1 EXCEPT !.position = Pos(t1.position.line, t1.position.character + 1)]
        ELSE t1

\* The rest of the loop body once current_char is to be absorbed.
StepChar(t, c) ==
    LET buf1 == Append(t.buf, c)
        sa   == StateAfter(t, c, buf1)
        t1   == [t EXCEPT !.buf = buf1, !.state = sa.state,
                          !.templ_stack = sa.templ_stack]
        t2   == IF Retracts(t1.buf) THEN Retract(t1) ELSE t1
    IN  IF t2.state # "NONE"
        THEN [t2 EXCEPT !.position = Pos(t2.position.line, t2.position.character + 1)]
        ELSE t2

\* Variant of ScanStep that stops only once the position is past the
\* boundary.
ScanStep_PastBoundary(t, lines) ==
    LET current_line == lines[t.position.line + 1]
        current_char == current_line[t.position.character + 1]
    IN  IF PosGT(t.position, t.max_position)
        THEN [t EXCEPT !.state = "END"]
        ELSE IF AtLineEnd(t, current_line)
        THEN StepNewline(t)
        ELSE IF t.buf # <<>> /\ current_char \in BRACKET_CHARS /\ t.state # "STRING"
        THEN [t EXCEPT !.state = "END"]
        ELSE StepChar(t, current_char)

\* One iteration of the scan loop of __next__.
ScanStep(t, lines) ==
    LET current_line == lines[t.position.line + 1]
        current_char == current_line[t.position.character + 1]
    IN  IF PosGE(t.position, t.max_position)
        THEN [t EXCEPT !.state = "END"]
        ELSE IF AtLineEnd(t, current_line)
        THEN StepNewline(t)
        ELSE IF t.buf # <<>> /\ current_char \in BRACKET_CHARS /\ t.state # "STRING"
        THEN [t EXCEPT !.state = "END"]
        ELSE StepChar(t, current_char)

\* The iteration reaches `buf += current_char`.
Absorbs(t, lines) ==
    LET current_line == lines[t.position.line + 1]
    IN  /\ ~PosGE(t.position, t.max_position)
        /\ ~AtLineEnd(t, current_line)
        /\ ~( /\ t.buf # <<>>
              /\ current_line[t.position.character + 1] \in BRACKET_CHARS
              /\ t.state # "STRING" )

\* Where the characters of buf were read from, after one iteration: the
\* position of current_char is added with it, and the HACK takes the last
\* two away with the last two characters.
ReadsAfter(rd, t, lines) ==
    LET rd1 == Append(rd, t.position)
        current_char == lines[t.position.line + 1][t.position.character + 1]
    IN  IF ~Absorbs(t, lines) THEN rd
        ELSE IF Retracts(Append(t.buf, current_char))
        THEN SubSeq(rd1, 1, Len(rd1) - 2)
        ELSE rd1

\* Variant of NextResult that returns the buffer without its ending space.
NextResult_Stripped(t) ==
    IF t.buf = <<>> THEN NoToken
    ELSE Token(TokenTypeOf(RStrip(t.buf)), RStrip(t.buf), t.start_line, t.start_col)

\* What __next__ returns once the loop has ended: NoToken for StopIteration.
NextResult(t) ==
    IF t.buf = <<>> THEN NoToken
    ELSE Token(TokenTypeOf(t.buf), t.buf, t.start_line, t.start_col)

----------------------------------------------------------------------------
(* action_at_cursor: the results *)

None == [kind |-> "None", component |-> <<>>, cursor |-> <<>>]

SuggestProps(component, cursor) ==
    [kind |-> "SuggestProps", component |-> component, cursor |-> cursor]

SuggestComponent(cursor) ==
    [kind |-> "SuggestComponent", component |-> <<>>, cursor |-> cursor]

SuggestPython(cursor) ==
    [kind |-> "SuggestPython", component |-> <<>>, cursor |-> cursor]

\* The call ended in an uncaught IndexError instead of a return value.
RaisedIndexError == [kind |-> "IndexError", component |-> <<>>, cursor |-> <<>>]

\* The body of the loop over the regions, for one yielded (start, end):
\* the new value of start_position.
SelectArea(start_position, start, end, cursor) ==
    IF PosGE(cursor, start) /\ PosLE(cursor, end) THEN start ELSE start_position

\* The loop over the regions stops at a region that starts after the cursor.
BreaksAt(start, cursor) == PosGT(start, cursor)

\* The fold over one token of the for loop: the new value of is_inside_tag.
InsideAfter(is_inside_tag, tok) ==
    IF is_inside_tag /\ tok.type = "BRACKET" /\ tok.value = <<GT>> THEN FALSE
    ELSE IF ~is_inside_tag /\ tok.type = "BRACKET" /\ tok.value = <<LT>> THEN TRUE
    ELSE is_inside_tag

\* The fold over one token of the for loop: the new value of component_token.
ComponentAfter(is_inside_tag, component_token, tok) ==
    IF is_inside_tag /\ tok.type = "BRACKET" /\ tok.value = <<GT>>
    THEN NoToken ELSE component_token

IsOpenBracket(tok) == tok.type = "BRACKET" /\ tok.value = <<LT>>

\* Variant of LastAfterComponent that takes the component name whether or
\* not it is finalized.
LastAfterComponent_Always(component_token, tok) == component_token

\* After the lookahead for the component name: the new value of last_token.
LastAfterComponent(component_token, tok) ==
    IF Finalized(component_token) THEN component_token ELSE tok

\* Variant of Decide that looks at is_inside_tag first.
Decide_TagFirst(is_inside_tag, component_token, last_token) ==
    LET m == IncompleteProgPropsMatch(last_token.value)
    IN  IF ~is_inside_tag
        THEN None
        ELSE IF last_token # NoToken /\ last_token.type = "INCOMPLETE_TEMPLATE"
        THEN SuggestPython(LStrip(Slice(last_token.value, 2)))
        ELSE IF last_token # NoToken /\ component_token # NoToken
                /\ last_token.type = "IDENT"
        THEN IF m[1]
             THEN SuggestPython(m[2])
             ELSE SuggestProps(Strip(component_token.value),
                               IF EndsWith(last_token.value, <<SP>>)
                               THEN <<>> ELSE last_token.value)
        ELSE IF last_token # NoToken /\ component_token # NoToken
                /\ last_token.type \in {"PROPS", "PROG_PROPS"}
        THEN SuggestProps(Strip(component_token.value), <<>>)
        ELSE IF component_token # NoToken /\ ~EndsWith(component_token.value, <<SP>>)
        THEN SuggestComponent(component_token.value)
        ELSE IF component_token = NoToken
                \/ (last_token # NoToken /\ last_token.value = <<LT>>)
        THEN SuggestComponent(<<>>)
        ELSE None

\* The decision after the fold.
Decide(is_inside_tag, component_token, last_token) ==
    LET m == IncompleteProgPropsMatch(last_token.value)
    IN  IF last_token # NoToken /\ last_token.type = "INCOMPLETE_TEMPLATE"
        THEN SuggestPython(LStrip(Slice(last_token.value, 2)))
        ELSE IF ~is_inside_tag
        THEN None
        ELSE IF last_token # NoToken /\ component_token # NoToken
                /\ last_token.type = "IDENT"
        THEN IF m[1]
             THEN SuggestPython(m[2])
             ELSE SuggestProps(Strip(component_token.value),
                               IF EndsWith(last_token.value, <<SP>>)
                               THEN <<>> ELSE last_token.value)
        ELSE IF last_token # NoToken /\ component_token # NoToken
                /\ last_token.type \in {"PROPS", "PROG_PROPS"}
        THEN SuggestProps(Strip(component_token.value), <<>>)
        ELSE IF component_token # NoToken /\ ~EndsWith(component_token.value, <<SP>>)
        THEN SuggestComponent(component_token.value)
        ELSE IF component_token = NoToken
                \/ (last_token # NoToken /\ last_token.value = <<LT>>)
        THEN SuggestComponent(<<>>)
        ELSE None

----------------------------------------------------------------------------
(* liku_commands: what the suggestion code makes of the action's text *)

NoRequest == [kind |-> "none", flag |-> FALSE, search_text |-> <<>>]

\* Variant of SuggestComponentsRequest that searches with the `/` kept.
SuggestComponentsRequest_KeepSlash(action) ==
    [kind        |-> "components",
     flag        |-> StartsWith(action.cursor, <<"/">>),
     search_text |-> action.cursor]

\* suggest_components: is_closing_tag and search_text
SuggestComponentsRequest(action) ==
    LET is_closing_tag == StartsWith(action.cursor, <<"/">>)
    IN  [kind        |-> "components",
         flag        |-> is_closing_tag,
         search_text |-> IF is_closing_tag THEN Slice(action.cursor, 1)
                         ELSE action.cursor]

\* Variant of SuggestPropsRequest that takes every prefix for programmatic.
SuggestPropsRequest_AlwaysProg(action) ==
    [kind        |-> "props",
     flag        |-> TRUE,
     search_text |-> Slice(action.cursor, 1)]

\* suggest_props: is_prog_props and search_text
SuggestPropsRequest(action) ==
    LET is_prog_props == StartsWith(action.cursor, <<":">>)
    IN  [kind        |-> "props",
         flag        |-> is_prog_props,
         search_text |-> IF is_prog_props THEN Slice(action.cursor, 1)
                         ELSE action.cursor]

\* suggest_python: search_text
SuggestPythonRequest(action) ==
    [kind |-> "python", flag |-> FALSE, search_text |-> action.cursor]

RequestOf(action) ==
    IF action.kind = "SuggestComponent" THEN SuggestComponentsRequest(action)
    ELSE IF action.kind = "SuggestProps" THEN SuggestPropsRequest(action)
    ELSE IF action.kind = "SuggestPython" THEN SuggestPythonRequest(action)
    ELSE NoRequest

----------------------------------------------------------------------------
(* The documents and cursors the analyser is run on *)

\* Bounds of the model
MaxLines == 3
MaxCol == 6
MaxBody == 3
MaxPrefix == 2
MaxExpr == 4
MaxCalls == 2

\* All strings over the characters cs of length at most n
Strings(cs, n) == UNION {[1..k -> cs] : k \in 0..n}

\* Lines of host code and markup (without their line break)
LocLines ==
    { <<LT, "a">>,
      <<"=", "h", SP, "(">>,
      <<"h", "(", DQ, DQ, DQ>>,
      TRIPLE_QUOTE,
      <<"h", "(", DQ, DQ, DQ, "a", DQ, DQ, DQ>> }

\* TextDocument.lines is source.splitlines(True): every line but the last
\* one keeps its line break.
WithBreaks(ls) ==
    [k \in 1..Len(ls) |-> IF k < Len(ls) THEN Append(ls[k], NL) ELSE ls[k]]

LocDocs == {WithBreaks(ls) : ls \in UNION {[1..n -> LocLines] : n \in 1..MaxLines}}

\* A document of host code around lines, each with a cursor anywhere in
\* it, past the end of a line or past the last line.
LocInputs ==
    {[document |-> d, position |-> Pos(l, c)] :
        d \in LocDocs, l \in 0..MaxLines, c \in 0..MaxCol}

\* The characters markup bodies are written with
BodyChars == {LT, GT, SP, "a", SQ, LB, RB}

\* A document whose one region holds `body`:   x / h("""body / """
BodyDoc(body) ==
    << <<"a", NL>>,
       <<"h", "(", DQ, DQ, DQ>> \o body \o <<NL>>,
       TRIPLE_QUOTE >>

\* Where the body of a BodyDoc starts
BodyStart == Pos(1, Len(<<"h", "(">>) + Len(TRIPLE_QUOTE))

\* The cursor at the end of the body or one character before it
BodyInputs(bodies) ==
    UNION {{[document |-> BodyDoc(b),
             position |-> Pos(BodyStart.line, BodyStart.character + k)] :
               k \in {j \in {Len(b) - 1, Len(b)} : j >= 0}} : b \in bodies}

\* Markup that ends in a tag being typed:  prefix < name [space]
TagNames ==
    { <<"a">>, <<"a", "b">>, <<"/">>, <<"/", "a">>, <<"/", "a", "b">> }

TagBodies ==
    {p \o <<LT>> \o n \o s :
        p \in Strings(BodyChars, MaxPrefix), n \in TagNames, s \in {<<>>, <<SP>>}}

\* Markup that ends in an expression being typed:  prefix {{ text
ExprChars == {SP, "a", "+", RB}

ExprPrefixes == { <<>>, <<LT, "a">>, <<LT, "a", SP>> }

ExprBodies ==
    {p \o TEMPLATE_OPEN \o t : p \in ExprPrefixes, t \in Strings(ExprChars, MaxExpr)}

\* Markup that holds an attribute:  prefix [:] name = quote value quote rest
PropNames == { <<>>, <<"a">>, <<"a", "b">> }

PropValues == { <<>>, <<"a">>, <<"a", "b">>, <<"a", SP, "b">> }

PropBodies ==
    {p \o c \o n \o <<"=">> \o <<q1>> \o v \o <<q2>> \o r :
        p \in {<<>>, <<LT, "a", SP>>}, c \in {<<>>, <<":">>}, n \in PropNames,
        q1 \in STRING_CHARS, v \in PropValues, q2 \in STRING_CHARS,
        r \in {<<>>, <<SP>>, <<"a">>}}

\* Markup of names, spaces, quotes, brackets and braces
ScanChars == {"a", SP, SQ, LT, LB}

ScanBodies == Strings(ScanChars, MaxBody)

\* A document whose one region holds two lines of markup:
\*   x / h("""first / second / """
LinesDoc(first, second) ==
    << <<"a", NL>>,
       <<"h", "(", DQ, DQ, DQ>> \o first \o <<NL>>,
       second \o <<NL>>,
       TRIPLE_QUOTE >>

SecondLines == { <<>>, <<"a">>, <<LT, "a", SP>> }

\* The cursor past the end of the first line, at the end of the second
\* line, or at the closing delimiter
LinesInputs ==
    UNION {{[document |-> LinesDoc(f, g), position |-> c] :
               c \in {Pos(1, BodyStart.character + Len(f) + 2), Pos(2, Len(g)), Pos(3, 0)}} :
              f \in ScanBodies, g \in SecondLines}

----------------------------------------------------------------------------
(* The state *)

VARIABLES
    document,         \* the TextDocument: its lines
    position,         \* the caller's cursor Position object
    pc,               \* where the caller and action_at_cursor stand
    calls,            \* what each finished call of action_at_cursor gave
    gen,              \* find_liku_areas: how its last resumption ended, its locals
    areas,            \* the regions find_liku_areas has yielded in this call
    start_position,   \* action_at_cursor: start_position
    tokenizer,        \* the Tokenizer and the locals of its running __next__
    want,             \* who called __next__: the for loop or next(tokenizer)
    token,            \* action_at_cursor: the loop variable
    is_inside_tag,    \* action_at_cursor: is_inside_tag
    component_token,  \* action_at_cursor: component_token
    last_token,       \* action_at_cursor: last_token
    reads,            \* the document positions the characters of buf were read from
    tokens,           \* the tokens __next__ has returned in this call, each with
                      \* its caller (the for loop or next(tokenizer)), the
                      \* value of is_inside_tag when it was returned and the
                      \* positions its characters were read from
    result,           \* what the current call returned or raised
    request           \* what liku_commands makes of the result

vars == <<document, position, pc, calls, gen, areas, start_position,
          tokenizer, want, token, is_inside_tag, component_token, last_token,
          reads, tokens, result, request>>

IdleTokenizer == NextEnter(TokenizerInit(NoPos, NoPos))

InitOn(inputs) ==
    /\ \E i \in inputs : document = i.document /\ position = i.position
    /\ pc = "call"
    /\ calls = <<>>
    /\ gen = NewGenerator
    /\ areas = <<>>
    /\ start_position = NoPos
    /\ tokenizer = IdleTokenizer
    /\ want = "loop"
    /\ token = NoToken
    /\ is_inside_tag = FALSE
    /\ component_token = NoToken
    /\ last_token = NoToken
    /\ reads = <<>>
    /\ tokens = <<>>
    /\ result = None
    /\ request = NoRequest

\* The caller calls action_at_cursor(document, position, html_func):
\* find_liku_areas is entered with start = end = Position(0, 0).
Call ==
    /\ pc = "call"
    /\ pc' = "areas"
    /\ gen' = NewGenerator
    /\ areas' = <<>>
    /\ start_position' = NoPos
    /\ tokenizer' = IdleTokenizer
    /\ want' = "loop"
    /\ token' = NoToken
    /\ is_inside_tag' = FALSE
    /\ component_token' = NoToken
    /\ last_token' = NoToken
    /\ reads' = <<>>
    /\ tokens' = <<>>
    /\ result' = None
    /\ request' = NoRequest
    /\ UNCHANGED <<document, position, calls>>

\* The loop over the regions has ended: return None without a region,
\* else build the Tokenizer and enter the for loop over it.
AfterAreas(sp) ==
    IF sp = NoPos
    THEN /\ pc' = "done"
         /\ result' = None
         /\ calls' = Append(calls, None)
         /\ UNCHANGED tokenizer
    ELSE /\ pc' = "scan"
         /\ tokenizer' = NextEnter(TokenizerInit(sp, position))
         /\ UNCHANGED <<result, calls>>

\* One turn of `for start, end in find_liku_areas(...)`: the generator runs
\* to its next yield, its return or its IndexError, and the loop body runs.
FindArea ==
    /\ pc = "areas"
    /\ LET g == NextArea(document, gen.end)
           sp == SelectArea(start_position, g.start, g.end, position)
       IN  CASE g.kind = "raise" ->
                  /\ pc' = "done"
                  /\ result' = RaisedIndexError
                  /\ calls' = Append(calls, RaisedIndexError)
                  /\ gen' = g
                  /\ UNCHANGED <<areas, start_position, tokenizer>>
             [] g.kind = "return" ->
                  /\ gen' = g
                  /\ AfterAreas(start_position)
                  /\ UNCHANGED <<areas, start_position>>
             [] g.kind = "yield" /\ BreaksAt(g.start, position) ->
                  /\ gen' = g
                  /\ areas' = Append(areas, <<g.start, g.end>>)
                  /\ AfterAreas(start_position)
                  /\ UNCHANGED start_position
             [] OTHER ->
                  /\ gen' = g
                  /\ areas' = Append(areas, <<g.start, g.end>>)
                  /\ start_position' = sp
                  /\ UNCHANGED <<pc, result, calls, tokenizer>>
    /\ UNCHANGED <<document, position, want, token, is_inside_tag,
                   component_token, last_token, reads, tokens, request>>

\* One iteration of the scan loop of Tokenizer.__next__.  max_position
\* is the caller's Position object: what is written to it is written to
\* the caller's cursor.
Step ==
    /\ pc = "scan"
    /\ ScanCond(tokenizer, document)
    /\ tokenizer' = ScanStep(tokenizer, document)
    /\ position' = tokenizer'.max_position
    /\ reads' = ReadsAfter(reads, tokenizer, document)
    /\ UNCHANGED <<document, pc, calls, gen, areas, start_position, want,
                   token, is_inside_tag, component_token, last_token, tokens,
                   result, request>>

\* The scan loop has ended: __next__ returns a token or raises
\* StopIteration, and its caller (the for loop, or next(tokenizer) after a
\* `<`) goes on to its next call of __next__ or leaves the loop.
Emit ==
    /\ pc = "scan"
    /\ ~ScanCond(tokenizer, document)
    /\ LET tok == NextResult(tokenizer)
       IN  CASE tok = NoToken /\ want = "component" ->
                  /\ last_token' = token
                  /\ want' = "loop"
                  /\ tokenizer' = NextEnter(tokenizer)
                  /\ UNCHANGED <<pc, token, is_inside_tag, component_token, tokens>>
             [] tok = NoToken /\ want = "loop" ->
                  /\ pc' = "decide"
                  /\ UNCHANGED <<want, token, is_inside_tag, component_token,
                                 last_token, tokens, tokenizer>>
             [] tok # NoToken /\ want = "component" ->
                  /\ component_token' = tok
                  /\ last_token' = LastAfterComponent(tok, token)
                  /\ want' = "loop"
                  /\ tokens' = Append(tokens, [tok |-> tok, via |-> "next",
                                                inside |-> is_inside_tag,
                                                src |-> reads])
                  /\ tokenizer' = NextEnter(tokenizer)
                  /\ UNCHANGED <<pc, token, is_inside_tag>>
             [] OTHER ->
                  /\ token' = tok
                  /\ is_inside_tag' = InsideAfter(is_inside_tag, tok)
                  /\ component_token' = ComponentAfter(is_inside_tag, component_token, tok)
                  /\ want' = IF IsOpenBracket(tok) THEN "component" ELSE "loop"
                  /\ last_token' = IF IsOpenBracket(tok) THEN last_token ELSE tok
                  /\ tokens' = Append(tokens, [tok |-> tok, via |-> "for",
                                                inside |-> is_inside_tag,
                                                src |-> reads])
                  /\ tokenizer' = NextEnter(tokenizer)
                  /\ UNCHANGED pc
    /\ reads' = <<>>
    /\ UNCHANGED <<document, position, calls, gen, areas, start_position,
                   result, request>>

\* The for loop is over: the decision, and the return.
Return ==
    /\ pc = "decide"
    /\ result' = Decide(is_inside_tag, component_token, last_token)
    /\ calls' = Append(calls, result')
    /\ pc' = "done"
    /\ UNCHANGED <<document, position, gen, areas, start_position, tokenizer,
                   want, token, is_inside_tag, component_token, last_token,
                   reads, tokens, request>>

\* The call is over: the suggestion code reads the action, and the caller
\* may ask again for the same document and position.
Serve ==
    /\ pc = "done"
    /\ request' = RequestOf(result)
    /\ pc' = IF Len(calls) < MaxCalls THEN "call" ELSE "end"
    /\ UNCHANGED <<document, position, calls, gen, areas, start_position,
                   tokenizer, want, token, is_inside_tag, component_token,
                   last_token, reads, tokens, result>>

Next == Call \/ FindArea \/ Step \/ Emit \/ Return \/ Serve

\* Host documents with a cursor anywhere, and every short markup body
Init == InitOn(LocInputs \cup BodyInputs(Strings(BodyChars, MaxBody)))

Spec == Init /\ [][Next]_vars

\* Markup that ends in a tag being typed
InitTag == InitOn(BodyInputs(TagBodies))

SpecTag == InitTag /\ [][Next]_vars

\* Markup that ends in an expression being typed
InitExpr == InitOn(BodyInputs(ExprBodies))

SpecExpr == InitExpr /\ [][Next]_vars

\* Markup that holds an attribute
InitProps == InitOn(BodyInputs(PropBodies))

SpecProps == InitProps /\ [][Next]_vars

\* Short markup, with the interpreter running the scan: an iteration of the
\* loop of __next__ that can be taken is taken, and so is its return.
InitScan == InitOn(BodyInputs(ScanBodies))

SpecScan == InitScan /\ [][Next]_vars /\ WF_vars(Step) /\ WF_vars(Emit)

\* Markup of two lines
InitLines == InitOn(LinesInputs)

SpecLines == InitLines /\ [][Next]_vars

----------------------------------------------------------------------------
(* What the properties speak of *)

\* Every region find_liku_areas yields for a document, run to its end.
RECURSIVE AreasFrom(_, _)
AreasFrom(lines, end) ==
    LET g == NextArea(lines, end)
    IN  IF g.kind = "yield"
        THEN << <<g.start, g.end>> >> \o AreasFrom(lines, g.end)
        ELSE <<>>

AllAreas(lines) == AreasFrom(lines, Pos(0, 0))

\* The cursor lies in a yielded region.
InYielded(lines, cursor) ==
    \E k \in DOMAIN AllAreas(lines) :
        PosGE(cursor, AllAreas(lines)[k][1]) /\ PosLE(cursor, AllAreas(lines)[k][2])

\* A call of action_at_cursor has ended and the suggestion code has read
\* its result.
Served == pc \in {"call", "end"} /\ calls # <<>>

\* The cursor's line, and the text on it that the tokenizer is given: from
\* the start of the region (when it starts on this line) up to the cursor.
CursorLine == document[position.line + 1]

ScanFrom ==
    IF start_position.line = position.line THEN start_position.character ELSE 0

ScanValid ==
    /\ start_position # NoPos
    /\ position.line < Len(document)
    /\ position.character <= Len(CursorLine)
    /\ ScanFrom <= position.character

Scanned == SubSeq(CursorLine, ScanFrom + 1, position.character)

\* The whole text between the start of the region and the cursor is text.
ScannedIs(text) ==
    /\ ScanValid
    /\ start_position.line = position.line
    /\ Scanned = text

\* The text given to the tokenizer ends with text.
ScannedEndsWith(text) == ScanValid /\ EndsWith(Scanned, text)

TokenSeq == [i \in DOMAIN tokens |-> tokens[i].tok]

\* The identifier-character names among TagNames
IdentNames == {n \in TagNames : \A i \in DOMAIN n : n[i] \in WordChars}

\* is_inside_tag when the scan reached column c of the cursor's line: its
\* value once the tokens that start before c were folded.
TagOpenBefore(c) ==
    LET prior == {i \in DOMAIN tokens :
                     PosGT(Pos(position.line, c),
                           Pos(tokens[i].tok.line, tokens[i].tok.column))}
        last  == CHOOSE i \in prior : \A j \in prior : j <= i
    IN  IF prior = {} THEN FALSE
        ELSE IF last < Len(tokens) THEN tokens[last + 1].inside
        ELSE is_inside_tag

\* A `<` at column c of the cursor's line was returned as a Bracket token
\* while no tag was open.
BracketOpensAt(c) ==
    \E i \in DOMAIN tokens :
        /\ tokens[i].tok = Token("BRACKET", <<LT>>, position.line, c)
        /\ ~tokens[i].inside

\* A `<` at column c of the cursor's line was returned as a Bracket token
\* to the for loop, which takes it for the opening of a tag.
OpeningBracketAt(c) ==
    \E i \in DOMAIN tokens :
        /\ tokens[i].tok = Token("BRACKET", <<LT>>, position.line, c)
        /\ tokens[i].via = "for"

----------------------------------------------------------------------------
(* C1 *)

\* C1: whenever the cursor lies in no region yielded by find_liku_areas,
\* action_at_cursor returns None and no tokenizer has run.
C1_OutsideEveryRegionNoAction ==
    (pc = "done" /\ ~InYielded(document, position)) =>
        /\ result = None
        /\ tokens = <<>>
        /\ tokenizer = IdleTokenizer

----------------------------------------------------------------------------
(* C2 *)

\* C2 as stated: the scanned text ends with `<` and a name N of identifier
\* characters, the cursor right after N, and no tag is open before that
\* `<`: the result is SuggestComponent(N).
C2_TagNameSuggested ==
    \A n \in IdentNames :
        ( /\ pc = "done"
          /\ ScannedEndsWith(<<LT>> \o n)
          /\ ~TagOpenBefore(position.character - Len(n) - 1) ) =>
            result = SuggestComponent(n)

\* C2, amended: the same when, besides, that `<` is not inside a quoted
\* string left open before it, so that it is returned as a Bracket token:
\* the result is SuggestComponent(N), never SuggestProps.
C2_TagNameSuggestedAtBracket ==
    \A n \in IdentNames :
        ( /\ pc = "done"
          /\ ScannedEndsWith(<<LT>> \o n)
          /\ BracketOpensAt(position.character - Len(n) - 1) ) =>
            result = SuggestComponent(n)

\* The cursor stands right after `<ab`, before a space, after other markup.
C2_Witness ==
    /\ pc = "done"
    /\ ScannedEndsWith(<<LT, "a", "b">>)
    /\ BracketOpensAt(position.character - 3)
    /\ Len(Scanned) > 3
    /\ position.character < Len(CursorLine)
    /\ CursorLine[position.character + 1] = SP
    /\ result = SuggestComponent(<<"a", "b">>)

----------------------------------------------------------------------------
(* C3 *)

\* C3 as stated: the scanned text ends with `<`, a name N of identifier
\* characters and one space, the cursor after the space, and no tag is
\* open before that `<`: the result is SuggestProps(N, ""), which
\* suggest_props reads as not programmatic.
C3_PropsSuggested ==
    \A n \in IdentNames :
        ( /\ Served
          /\ ScannedEndsWith(<<LT>> \o n \o <<SP>>)
          /\ ~TagOpenBefore(position.character - Len(n) - 2) ) =>
            /\ result = SuggestProps(n, <<>>)
            /\ request = [kind |-> "props", flag |-> FALSE, search_text |-> <<>>]

\* C3, amended: the same when, besides, that `<` is not inside a quoted
\* string left open before it, so that it is returned as a Bracket token.
C3_PropsSuggestedAtBracket ==
    \A n \in IdentNames :
        ( /\ Served
          /\ ScannedEndsWith(<<LT>> \o n \o <<SP>>)
          /\ BracketOpensAt(position.character - Len(n) - 2) ) =>
            /\ result = SuggestProps(n, <<>>)
            /\ request = [kind |-> "props", flag |-> FALSE, search_text |-> <<>>]

\* The cursor stands after `<ab ` and the props of ab were asked for.
C3_Witness ==
    /\ Served
    /\ ScannedEndsWith(<<LT, "a", "b", SP>>)
    /\ BracketOpensAt(position.character - 4)
    /\ result = SuggestProps(<<"a", "b">>, <<>>)
    /\ request.kind = "props"

----------------------------------------------------------------------------
(* C4 *)

\* C4: the scanned text is `{{` and a partial expression t of letters,
\* spaces and operators, without a closing `}}`: the result is
\* SuggestPython of t without its leading whitespace.
C4_ExpressionSuggested ==
    ( /\ pc = "done"
      /\ ScanValid
      /\ start_position.line = position.line
      /\ StartsWith(Scanned, TEMPLATE_OPEN)
      /\ \A i \in 3..Len(Scanned) : Scanned[i] \in {SP, "a", "+"} ) =>
        result = SuggestPython(LStrip(Slice(Scanned, 2)))

----------------------------------------------------------------------------
(* C5 *)

\* C5: the text from an opening `<` up to the cursor is a tag prefix: the
\* result is SuggestComponent of the prefix, and suggest_components takes
\* `/P` for a closing tag searched as P, and a prefix without a leading
\* `/` for an opening tag searched as it is.
C5_ClosingTagRecognised ==
    \A n \in TagNames :
        ( /\ Served
          /\ ScannedEndsWith(<<LT>> \o n)
          /\ OpeningBracketAt(position.character - Len(n) - 1) ) =>
            /\ result = SuggestComponent(n)
            /\ request = [kind        |-> "components",
                          flag        |-> (Head(n) = "/"),
                          search_text |-> IF Head(n) = "/" THEN Tail(n) ELSE n]

\* `</ab` was typed and ab is searched for a closing tag.
C5_Witness ==
    /\ Served
    /\ ScannedEndsWith(<<LT, "/", "a", "b">>)
    /\ OpeningBracketAt(position.character - 4)
    /\ request = [kind |-> "components", flag |-> TRUE, search_text |-> <<"a", "b">>]

----------------------------------------------------------------------------
(* C6 *)

\* C6: the scanned text is `<`, a name of identifier characters and one
\* space: when the token stream is exhausted it has given exactly the
\* Bracket `<` and the Ident `name `, which is finalized.
C6_BracketThenFinalizedIdent ==
    \A n \in IdentNames :
        (pc = "decide" /\ ScannedIs(<<LT>> \o n \o <<SP>>)) =>
            /\ TokenSeq = << Token("BRACKET", <<LT>>, start_position.line,
                                   start_position.character),
                             Token("IDENT", n \o <<SP>>, start_position.line,
                                   start_position.character + 1) >>
            /\ Finalized(TokenSeq[2])

\* `<ab ` was tokenized to its end.
C6_Witness ==
    /\ pc = "decide"
    /\ ScannedIs(<<LT, "a", "b", SP>>)
    /\ Len(tokens) = 2

----------------------------------------------------------------------------
(* C7 *)

\* Texts of the shape name="value": a name and a value of word characters,
\* the value between two equal quotes, after the prefix c (`:` or nothing)
AttrShapes(c) ==
    {c \o n \o <<"=">> \o <<q>> \o v \o <<q>> :
        n \in {m \in PropNames : m # <<>>},
        q \in STRING_CHARS,
        v \in {w \in PropValues : \A i \in DOMAIN w : w[i] \in WordChars}}

\* The text from the start of token tk to the end of its line, or to the
\* cursor on the cursor's line.
TextFrom(tk) ==
    LET line == document[tk.line + 1]
        to   == IF tk.line = position.line /\ position.character <= Len(line)
                THEN position.character ELSE Len(line)
    IN  SubSeq(line, tk.column + 1, to)

\* C7: a token that starts where a text of the shape name="value" starts
\* ends at the closing quote and is a Props token; with the shape
\* :name="value" it is a ProgProps token.
C7_AttributeTokens ==
    \A i \in DOMAIN tokens :
        /\ \A shape \in AttrShapes(<<>>) :
              StartsWith(TextFrom(tokens[i].tok), shape) =>
                  tokens[i].tok.value = shape /\ tokens[i].tok.type = "PROPS"
        /\ \A shape \in AttrShapes(<<":">>) :
              StartsWith(TextFrom(tokens[i].tok), shape) =>
                  tokens[i].tok.value = shape /\ tokens[i].tok.type = "PROG_PROPS"

\* A ProgProps token and a Props token were returned, with text after them.
C7_Witness ==
    /\ pc = "done"
    /\ \E i \in DOMAIN tokens :
          /\ tokens[i].tok.type = "PROG_PROPS"
          /\ tokens[i].tok.value \in AttrShapes(<<":">>)
          /\ Len(TextFrom(tokens[i].tok)) > Len(tokens[i].tok.value)

----------------------------------------------------------------------------
(* C8 *)

\* C8: the second call on the same document and cursor gives what the
\* first call gave.
C8_SecondCallSame == Len(calls) >= 2 => calls[2] = calls[1]

\* Two calls have ended after a scan in which the tokenizer gave an opener
\* back (the name a is directly followed by `{{`).
C8_Witness ==
    /\ Len(calls) = 2
    /\ calls[1].kind = "SuggestProps"
    /\ ScanValid
    /\ StartsWith(Scanned, <<LT, "a">> \o TEMPLATE_OPEN)

----------------------------------------------------------------------------
(* C9 *)

\* C9: action_at_cursor never ends in a raised error.
C9_NeverRaises == pc = "done" => result # RaisedIndexError

----------------------------------------------------------------------------
(* C10 *)

\* No closing delimiter occurs in the document at or after position u.
NoDelimiterFrom(lines, u) ==
    \A k \in u.line..(Len(lines) - 1) :
        \A i \in 0..Len(lines[k + 1]) :
            IsAt(lines[k + 1], TRIPLE_QUOTE, i) => (k = u.line /\ i < u.character)

\* The generator's last resumption found an opening delimiter.
OpeningFound ==
    /\ gen.kind \in {"return", "yield"}
    /\ gen.start.line < Len(document)
    /\ gen.start.character >= Len(TRIPLE_QUOTE)

\* C10: when find_liku_areas has found an opening delimiter and no closing
\* delimiter follows it, it ends without yielding a region for it, the
\* regions yielded before are all those of the document, and a cursor at
\* or after that opening gets None.
C10_UnterminatedDropped ==
    (OpeningFound /\ NoDelimiterFrom(document, gen.start)) =>
        /\ gen.kind = "return"
        /\ \A k \in DOMAIN areas : PosGT(gen.start, areas[k][2])
        /\ (pc = "done" /\ PosGE(position, gen.start)) => result = None

\* A region was yielded, a later opening is left unterminated, and the
\* cursor is in the unterminated span.
C10_Witness ==
    /\ pc = "done"
    /\ OpeningFound
    /\ NoDelimiterFrom(document, gen.start)
    /\ Len(areas) = 1
    /\ PosGE(position, gen.start)
    /\ result = None

----------------------------------------------------------------------------
(* C11 *)

\* C11: every character of every returned token was read from a document
\* position p with start <= p < boundary, the start of the region and the
\* cursor: no character at or after the cursor is in a token.
C11_TokensWithinBounds ==
    \A i \in DOMAIN tokens :
        /\ Len(tokens[i].src) = Len(tokens[i].tok.value)
        /\ \A k \in DOMAIN tokens[i].src :
              LET p == tokens[i].src[k]
              IN  /\ PosGE(p, start_position)
                  /\ PosGT(position, p)
                  /\ document[p.line + 1][p.character + 1] = tokens[i].tok.value[k]

\* A token ends right before the cursor, and a character of the markup
\* stands at the cursor.
C11_Witness ==
    /\ pc = "done"
    /\ tokens # <<>>
    /\ position.character < Len(CursorLine)
    /\ CursorLine[position.character + 1] \in BodyChars
    /\ LET tk == tokens[Len(tokens)]
       IN  tk.src[Len(tk.src)] = Pos(position.line, position.character - 1)

----------------------------------------------------------------------------
(* C12 *)

\* The next iteration of the scan loop is one in which the HACK gives an
\* opener back.
RetractStep ==
    /\ pc = "scan"
    /\ ScanCond(tokenizer, document)
    /\ Absorbs(tokenizer, document)
    /\ Retracts(Append(tokenizer.buf,
                        document[tokenizer.position.line + 1]
                                [tokenizer.position.character + 1]))

\* The column at which line l ends: that of its line break, or its length.
LineEnd(l) ==
    IF document[l + 1] # <<>> /\ document[l + 1][Len(document[l + 1])] = NL
    THEN Len(document[l + 1]) - 1
    ELSE Len(document[l + 1])

\* C12 as stated: during a scan the position of the tokenizer never
\* decreases from one step to the next, and it is never greater than the
\* boundary.
C12_PositionMonotoneBounded ==
    /\ [][(pc = "scan" /\ pc' = "scan") =>
            PosGE(tokenizer'.position, tokenizer.position)]_vars
    /\ [](pc = "scan" => PosLE(tokenizer.position, position))

\* C12, amended: from one step to the next the position does not decrease,
\* except in the step that gives an opener `{{` back, which moves it back
\* by exactly one column on its line; and it is never greater than the
\* boundary, except that with a boundary whose column is past the end of
\* its line it comes to stand at column 0 of the next line.
C12_PositionMonotoneButRetract ==
    /\ [][(pc = "scan" /\ pc' = "scan") =>
            \/ PosGE(tokenizer'.position, tokenizer.position)
            \/ /\ RetractStep
               /\ tokenizer'.position = Pos(tokenizer.position.line,
                                            tokenizer.position.character - 1)]_vars
    /\ [](pc = "scan" =>
            \/ PosLE(tokenizer.position, position)
            \/ /\ tokenizer.position = Pos(position.line + 1, 0)
               /\ position.character > LineEnd(position.line))

\* The tokenizer has just given an opener back: the token `a` is closed
\* and the position stands on the `{{` that follows it, before the cursor.
C12_Witness ==
    /\ pc = "scan"
    /\ tokenizer.state = "END"
    /\ tokenizer.buf = <<"a">>
    /\ tokenizer.position.line = position.line
    /\ tokenizer.position.character + 2 <= position.character
    /\ IsAt(CursorLine, TEMPLATE_OPEN, tokenizer.position.character)

----------------------------------------------------------------------------
(* C13 *)

\* Where token i starts
TokenStart(i) == Pos(tokens[i].tok.line, tokens[i].tok.column)

\* C13: every scan comes to its end, the exhausted stream (every call of
\* __next__ before it has returned), and each returned token starts
\* strictly after the start of the token before it, also when an opener
\* was given back.
C13_StreamFinite ==
    /\ [](\A i \in DOMAIN tokens :
             i > 1 => PosGT(TokenStart(i), TokenStart(i - 1)))
    /\ (pc = "scan") ~> (pc = "decide")

\* The stream is exhausted after a scan that gave an opener back: the
\* token `a` is directly followed by a token that starts with `{{`.
C13_Witness ==
    /\ pc = "decide"
    /\ \E i \in DOMAIN tokens :
          /\ i > 1
          /\ tokens[i - 1].tok.value = <<"a">>
          /\ StartsWith(tokens[i].tok.value, TEMPLATE_OPEN)
          /\ TokenStart(i) = Pos(tokens[i - 1].tok.line, tokens[i - 1].tok.column + 1)

----------------------------------------------------------------------------
(* C14 *)

\* The regions rs are in strictly increasing order and do not overlap.
Ordered(rs) ==
    \A k \in DOMAIN rs :
        /\ PosLE(rs[k][1], rs[k][2])
        /\ k > 1 => PosGT(rs[k][1], rs[k - 1][2])

\* C14: the regions find_liku_areas has yielded to action_at_cursor, and
\* all the regions it yields for the document, are in strictly increasing
\* document order and do not overlap: each has start <= end and each later
\* one starts strictly after the end of the one before it.
C14_RegionsOrdered ==
    /\ Ordered(areas)
    /\ Ordered(AllAreas(document))
    /\ \A k \in DOMAIN areas : areas[k] = AllAreas(document)[k]

\* Two regions were yielded, the first of them inline.
C14_Witness ==
    /\ pc = "done"
    /\ Len(areas) = 2
    /\ areas[1][1].line = areas[1][2].line
    /\ areas[1][1] # areas[1][2]

----------------------------------------------------------------------------
(* C15 *)

\* Balanced expression groups: `{{`, a text of letters, spaces and
\* operators, `}}`
ExprGroups ==
    {TEMPLATE_OPEN \o t \o TEMPLATE_CLOSE : t \in Strings({SP, "a", "+"}, MaxExpr - 2)}

\* C15: a token that starts with the `{{` of a balanced expression group
\* lying before the cursor is that group and nothing else, a Template
\* token: a space inside the group does not close it, and it closes at the
\* `}}` of the group.
C15_GroupIsOneTemplate ==
    \A i \in DOMAIN tokens :
        \A g \in ExprGroups :
            ( /\ StartsWith(tokens[i].tok.value, TEMPLATE_OPEN)
              /\ StartsWith(TextFrom(tokens[i].tok), g) ) =>
                /\ tokens[i].tok.value = g
                /\ tokens[i].tok.type = "TEMPLATE"

----------------------------------------------------------------------------
(* C16 *)

\* The places where the character at position p was put into a token
TakenAt(p) ==
    UNION {{<<i, k>> : k \in {j \in DOMAIN tokens[i].src : tokens[i].src[j] = p}} :
              i \in DOMAIN tokens}

\* An opener `{{` stands at column c of the cursor's line, before the
\* cursor, directly after a character of a name that was scanned.
OpenerAfterName(c) ==
    /\ c > ScanFrom
    /\ c + Len(TEMPLATE_OPEN) <= position.character
    /\ IsAt(CursorLine, TEMPLATE_OPEN, c)
    /\ CursorLine[c] \in WordChars

\* C16: when the stream is exhausted, for an opener `{{` that directly
\* follows a character of a name: a token ends with that character, the
\* next token starts at the first `{` of the opener, and each of the two
\* characters of the opener is in exactly one token.
C16_OpenerStartsToken ==
    (pc = "decide" /\ ScanValid) =>
        \A c \in 1..Len(CursorLine) :
            OpenerAfterName(c) =>
            \E i \in DOMAIN tokens :
                /\ i > 1
                /\ TokenStart(i) = Pos(position.line, c)
                /\ Head(tokens[i].tok.value) = LB
                /\ tokens[i - 1].src[Len(tokens[i - 1].src)] = Pos(position.line, c - 1)
                /\ tokens[i - 1].tok.value[Len(tokens[i - 1].tok.value)] = CursorLine[c]
                /\ Cardinality(TakenAt(Pos(position.line, c))) = 1
                /\ Cardinality(TakenAt(Pos(position.line, c + 1))) = 1

\* `<a{{` and more was scanned to its end: the name a is a token by
\* itself and an expression token starts at the opener.
C16_Witness ==
    /\ pc = "decide"
    /\ ScannedIs(<<LT, "a">> \o TEMPLATE_OPEN \o <<"a">>)
    /\ Len(tokens) = 3
    /\ tokens[2].tok.value = <<"a">>
    /\ tokens[3].tok.value = TEMPLATE_OPEN \o <<"a">>

----------------------------------------------------------------------------
(* C17 *)

\* Line l matches the call pattern, every region that starts before it
\* ends before it, and an opening delimiter at or after it is followed by
\* a closing one.
CallLineWithRegion(lines, l) ==
    LET openLine == FindOpeningLine(lines, l)
        start    == Pos(openLine, Find(lines[openLine + 1], TRIPLE_QUOTE) + Len(TRIPLE_QUOTE))
    IN  /\ HtmlStartSearch(lines[l + 1])
        /\ \A k \in DOMAIN AllAreas(lines) :
              AllAreas(lines)[k][1].line < l => AllAreas(lines)[k][2].line < l
        /\ openLine < Len(lines)
        /\ FindClosingLine(lines, start) < Len(lines)

\* The region that starts just after the first opening delimiter at or
\* after line l and ends at the first delimiter found after it.
RegionOf(lines, l) ==
    LET openLine == FindOpeningLine(lines, l)
        start    == Pos(openLine, Find(lines[openLine + 1], TRIPLE_QUOTE) + Len(TRIPLE_QUOTE))
        endLine  == FindClosingLine(lines, start)
        idx      == Find(ClosingText(lines, start, endLine), TRIPLE_QUOTE)
    IN  <<start, Pos(endLine, IF endLine = start.line THEN idx + start.character ELSE idx)>>

\* C17: for every line of the document, line 0 included, that matches the
\* call pattern after the end of every earlier region and has an opening
\* and a closing delimiter after it, find_liku_areas yields the region
\* from just after that opening delimiter to the first delimiter after it.
C17_CallLineYieldsRegion ==
    \A l \in 0..(Len(document) - 1) :
        CallLineWithRegion(document, l) =>
            \E k \in DOMAIN AllAreas(document) :
                AllAreas(document)[k] = RegionOf(document, l)

----------------------------------------------------------------------------
(* C18 *)

\* The Bracket tokens the tokenizer has returned
Brackets == {i \in DOMAIN tokens : tokens[i].tok.type = "BRACKET"}

\* The last Bracket token the tokenizer has returned is `<`.
LastBracketOpens ==
    /\ Brackets # {}
    /\ tokens[CHOOSE i \in Brackets : \A j \in Brackets : j <= i].tok.value = <<LT>>

\* C18: once the whole token stream is folded, is_inside_tag is true
\* exactly when the last Bracket token returned is `<`; and whenever the
\* token returned last is a `>` Bracket, no component token is captured.
C18_InsideTagFollowsLastBracket ==
    /\ pc = "decide" => (is_inside_tag <=> LastBracketOpens)
    /\ ( /\ tokens # <<>>
         /\ tokens[Len(tokens)].tok = Token("BRACKET", <<GT>>,
                                            tokens[Len(tokens)].tok.line,
                                            tokens[Len(tokens)].tok.column) ) =>
            component_token = NoToken

----------------------------------------------------------------------------
(* C19 *)

\* action_at_cursor has returned what it decided after the fold.
Decided == pc = "done" /\ tokenizer # IdleTokenizer

\* C19: when the decision is made with an IncompleteTemplate last token,
\* the result is SuggestPython of the token's text after its two-character
\* opener, left-trimmed, inside a tag or not; with any other last token
\* and is_inside_tag false, the result is None.
C19_IncompleteTemplateFirst ==
    Decided =>
        /\ last_token.type = "INCOMPLETE_TEMPLATE" =>
              /\ result.kind = "SuggestPython"
              /\ StartsWith(last_token.value, TEMPLATE_OPEN)
              /\ \E n \in 0..Len(last_token.value) :
                    /\ last_token.value =
                          TEMPLATE_OPEN \o [k \in 1..n |-> SP] \o result.cursor
                    /\ (result.cursor # <<>> => Head(result.cursor) # SP)
        /\ (last_token.type # "INCOMPLETE_TEMPLATE" /\ ~is_inside_tag) =>
              result = None

\* An expression is being typed among the attributes of a tag: the last
\* token is the IncompleteTemplate `{{a`, inside the tag of a.
C19_Witness ==
    /\ Decided
    /\ is_inside_tag
    /\ component_token.value = <<"a", SP>>
    /\ last_token = Token("INCOMPLETE_TEMPLATE", TEMPLATE_OPEN \o <<"a">>,
                          position.line, position.character - 3)
    /\ result = SuggestPython(<<"a">>)

----------------------------------------------------------------------------
(* C20 *)

\* The call was decided inside a tag with a captured component and a
\* completed attribute as the last token, and its result was read.
AfterAttribute ==
    /\ Served
    /\ is_inside_tag
    /\ component_token # NoToken
    /\ last_token.type \in {"PROPS", "PROG_PROPS"}

\* C20 as stated: after a completed attribute inside a tag the result is
\* SuggestProps of the component with an empty prefix, programmatic
\* exactly when the last token is ProgProps.
C20_ProgrammaticAfterProgProps ==
    AfterAttribute =>
        /\ result = SuggestProps(Strip(component_token.value), <<>>)
        /\ request.kind = "props"
        /\ request.flag = (last_token.type = "PROG_PROPS")

\* C20, amended: after a completed attribute inside a tag the result is
\* SuggestProps of the component with an empty prefix, which suggest_props
\* reads as not programmatic, after a ProgProps token as after a Props
\* token.
C20_NeverProgrammaticAfterAttribute ==
    AfterAttribute =>
        /\ result = SuggestProps(Strip(component_token.value), <<>>)
        /\ request = [kind |-> "props", flag |-> FALSE, search_text |-> <<>>]

\* The attribute :a="..." of the tag a was completed right before the
\* cursor and the next attribute was asked for.
C20_Witness ==
    /\ AfterAttribute
    /\ last_token.type = "PROG_PROPS"
    /\ component_token.value = <<"a", SP>>
    /\ result = SuggestProps(<<"a">>, <<>>)
    /\ request.kind = "props"

----------------------------------------------------------------------------
(* C21 *)

\* The openings of a programmatic attribute value:  :name= and a quote
ProgOpenings ==
    {<<":">> \o n \o <<"=", q>> : n \in {m \in PropNames : m # <<>>}, q \in STRING_CHARS}

\* C21: when the decision is made inside a tag with a captured component
\* and the last token is an Ident made of :name=, an opening quote and a
\* partial value without a quote in it (empty, or with spaces), the result
\* is SuggestPython of exactly that partial value.
C21_PartialValueSuggested ==
    \A pre \in ProgOpenings :
        ( /\ Decided
          /\ is_inside_tag
          /\ component_token # NoToken
          /\ last_token.type = "IDENT"
          /\ StartsWith(last_token.value, pre)
          /\ \A k \in (Len(pre) + 1)..Len(last_token.value) :
                last_token.value[k] \notin STRING_CHARS ) =>
            result = SuggestPython(Slice(last_token.value, Len(pre)))

\* The value of :a= is being typed in the tag a and holds a space.
C21_Witness ==
    /\ Decided
    /\ is_inside_tag
    /\ component_token.value = <<"a", SP>>
    /\ last_token.type = "IDENT"
    /\ last_token.value = <<":", "a", "=", DQ, "a", SP, "b">>
    /\ result = SuggestPython(<<"a", SP, "b">>)

----------------------------------------------------------------------------
(* C22 *)

\* The texts of the tokens ts, one after the other
RECURSIVE Concat(_)
Concat(ts) == IF ts = <<>> THEN <<>> ELSE Head(ts).value \o Concat(Tail(ts))

\* The text of line l between the positions from and to, without its
\* line break
LineText(lines, l, from, to) ==
    LET line == lines[l + 1]
        lo   == IF l = from.line THEN from.character ELSE 0
        hi   == IF l = to.line /\ to.character < Len(line) THEN to.character ELSE Len(line)
    IN  SelectSeq(SubSeq(line, lo + 1, hi), LAMBDA c : c # NL)

\* The document text from position from up to position to, line breaks
\* removed, taken line by line from line l on
RECURSIVE TextBetween(_, _, _, _)
TextBetween(lines, l, from, to) ==
    IF l > to.line \/ l >= Len(lines) THEN <<>>
    ELSE LineText(lines, l, from, to) \o TextBetween(lines, l + 1, from, to)

\* C22: when the stream is exhausted, the texts of the returned tokens,
\* one after the other, are the document text from the start of the
\* region up to the cursor with the line breaks removed: no character is
\* dropped and none is returned twice.
C22_TokensCoverText ==
    pc = "decide" =>
        Concat(TokenSeq) = TextBetween(document, start_position.line, start_position, position)

\* A scan over two lines is exhausted: the first line ends in a name
\* followed by an opener that was given back, the second holds a tag.
C22_Witness ==
    /\ pc = "decide"
    /\ position.line > start_position.line + 1
    /\ EndsWith(document[start_position.line + 1], <<"a">> \o TEMPLATE_OPEN \o <<NL>>)
    /\ document[start_position.line + 2] = <<LT, "a", SP, NL>>
    /\ Len(tokens) = 4

====
